---- MODULE Spec2Model ----
(***************************************************************************)
(* Dataset ingestion / sync / store of the Startlytics backend.            *)
(*                                                                         *)
(* The state is the Dataset collection (models/Dataset.js), the wall       *)
(* clock, and a finite pool of HTTP requests.  Every request is one run    *)
(* of a controller; a controller that awaits a remote fetch between its    *)
(* database read and its database write is split at those awaits, so that  *)
(* other requests interleave exactly where Node's event loop lets them.    *)
(***************************************************************************)
EXTENDS Integers, Sequences, FiniteSets, TLC

\* ---------------------------------------------------------------- bounds
\* number of requests the clients issue in one behaviour
MaxReq == 3
\* number of requests that can be in flight (awaiting I/O) at the same time
MaxConc == 2

\* ------------------------------------------------------------- universes
Users == {"A", "B"}
Reqs == 1..MaxConc
\* a malformed ObjectId string (mongoose.Types.ObjectId.isValid is false)
BadId == 0

\* A sheet URL is the sequence of its path segments; <<>> is the empty string.
GoodUrl == <<"d", "s1">>
Urls == { GoodUrl, <<"x", "s1">>, << >> }
NoUrl == << >>

\* A row is the ordered list of its (key, value) pairs, a table a list of rows.
Row_a1 == << <<"a", "1">> >>
Row_ab1 == << <<"a", "1">>, <<"b", "1">> >>
Row_ab2 == << <<"a", "2">>, <<"b", "2">> >>
Row_ba1 == << <<"b", "1">>, <<"a", "1">> >>
\* what the remote CSV export can parse to (csvtojson): no record, one, two,
\* and one with the columns in the other order (the export is rectangular)
Tables == { << >>, <<Row_ab1>>, <<Row_ab1, Row_ab2>>, <<Row_ba1>> }
\* what an uploaded file can parse to
UploadTables == { << >>, <<Row_a1>> }

\* Object.keys(row): the keys of a row in insertion order
ObjectKeys(row) == [i \in 1..Len(row) |-> row[i][1]]

\* const headers = Object.keys(rows[0] || {})
HeadersOf(rows) == IF Len(rows) = 0 THEN << >> ELSE ObjectKeys(rows[1])

\* Papa.parse(csvContent, {header: true, skipEmptyLines: true}): result.meta.fields
\* comes from the header line, result.data from the records after it
\* (header line only; and a record shorter than the header line: Papa gives the
\* row the fields it has and no key for the missing cell)
CsvParses ==
  {[fields |-> HeadersOf(t), data |-> t] : t \in UploadTables}
    \cup {[fields |-> <<"a">>, data |-> << >>]}
    \cup {[fields |-> <<"a", "b">>, data |-> <<Row_a1>>]}

\* (variant: the pattern /\/([a-zA-Z0-9-_]+)/, any non-empty segment)
RegexMatch_anySegment(url) ==
  LET hits == {i \in 1..Len(url) : url[i] # ""}
  IN IF hits = {} THEN << >>
     ELSE LET i == CHOOSE j \in hits : \A k \in hits : j <= k IN <<url[i]>>

\* sheetUrl.match(/\/d\/([a-zA-Z0-9-_]+)/): the segment after the first "d"
\* segment that is followed by a non-empty id; <<>> when there is no match
RegexMatch(url) ==
  LET hits == {i \in 1..Len(url) : url[i] = "d" /\ i < Len(url) /\ url[i + 1] # ""}
  IN IF hits = {} THEN << >>
     ELSE LET i == CHOOSE j \in hits : \A k \in hits : j <= k IN <<url[i + 1]>>

\* ------------------------------------------------------------- variables
VARIABLES
  store,     \* the Dataset collection: _id -> document
  nextId,    \* the next ObjectId to be generated
  now,       \* Date.now(); it advances while a handler waits for the remote sheet
  req,       \* the requests in flight: controller, position, locals
  started,   \* number of requests issued so far
  last,      \* the request answered last, with its response
  okSyncs,   \* history: _id -> number of sync operations answered with success
  files,     \* the files in the uploads directory (their paths)
  summaryCache,      \* aiController.js: cache key -> [data, timestamp]
  userContextCache   \* assisantHelper.js: cache key -> [data, timestamp]

vars == <<store, nextId, now, req, started, last, okSyncs, files, summaryCache, userContextCache>>

\* the ids a client can send: a malformed one, every id generated so far and
\* one well-formed id that no document has
ReqIds == {BadId} \cup (1..nextId)

\* ------------------------------------------------------------- responses
NoBody == [none |-> TRUE]
Resp(status, message, body) == [status |-> status, message |-> message, body |-> body]
NoResp == Resp(0, "", NoBody)
\* res.status(500).json({message, error: error.message})
ErrResp(status, message, error) == Resp(status, message, [error |-> error])

Answer(op, user, id, url, resp) == [op |-> op, user |-> user, id |-> id, url |-> url, resp |-> resp]

IdleReq ==
  [op |-> "none", pc |-> "idle", user |-> "A", id |-> BadId, url |-> NoUrl,
   doc |-> << >>, table |-> << >>, gets |-> 0]

Init ==
  /\ store = << >>
  /\ nextId = 1
  /\ now = 1
  /\ req = [r \in Reqs |-> IdleReq]
  /\ started = 0
  /\ last = Answer("none", "A", BadId, NoUrl, NoResp)
  /\ okSyncs = << >>
  /\ files = {}
  /\ summaryCache = << >>
  /\ userContextCache = << >>

\* ------------------------------------------------------- Dataset schema
\* new DATASHEET({...}): the schema defaults fill what the caller leaves out
\* (uploadedAt Date.now, rowCount rows.length, lastSyncedAt Date.now,
\* syncCount 1); the version key __v starts at 0.
NewDataset(userId, source, sheetUrl, headers, rows, t) ==
  [userId |-> userId, source |-> source, sheetUrl |-> sheetUrl,
   headers |-> headers, rows |-> rows, rowCount |-> Len(rows),
   uploadedAt |-> t, lastSyncedAt |-> t, syncCount |-> 1, v |-> 0]

\* sheetUrl: required: function() { return this.source === 'sheet' }; an empty
\* string does not satisfy required
Validates(d) == d.source = "sheet" => d.sheetUrl # NoUrl

\* ------------------------------------------------------- query helpers
\* (variant: the filter without userId)
FindByIdAndUser_anyOwner(s, id, user) == {i \in DOMAIN s : i = id}

\* Model.findOne({_id, userId}): the ids matching the filter
FindByIdAndUser(s, id, user) == {i \in DOMAIN s : i = id /\ s[i].userId = user}

\* (variant: the filter without userId)
FindSheetByIdAndUser_anyOwner(s, id, user) ==
  {i \in DOMAIN s : i = id /\ s[i].source = "sheet"}

\* Model.findOne({_id, userId, source: "sheet"})
FindSheetByIdAndUser(s, id, user) ==
  {i \in DOMAIN s : i = id /\ s[i].userId = user /\ s[i].source = "sheet"}

\* (variant: a lookup that never finds the sheet)
FindSheetByUrl_never(s, user, url) == {}

\* Model.findOne({userId, sheetUrl, source: "sheet"})
FindSheetByUrl(s, user, url) ==
  {i \in DOMAIN s : s[i].userId = user /\ s[i].sheetUrl = url /\ s[i].source = "sheet"}

\* Model.findById(id): no owner in the filter
FindById(s, id) == {i \in DOMAIN s : i = id}

\* Model.find({userId})
FindByUser(s, user) == {i \in DOMAIN s : s[i].userId = user}

\* findOne returns the first match in natural (insertion) order
First(ids) == CHOOSE i \in ids : \A j \in ids : i <= j

Remove(s, id) == [i \in DOMAIN s \ {id} |-> s[i]]

Insert(s, id, d) == [i \in DOMAIN s \cup {id} |-> IF i = id THEN d ELSE s[i]]

\* ----------------------------------------------------- request plumbing
\* a new request takes the lowest free slot
CanBegin(r) ==
  /\ started < MaxReq
  /\ req[r].pc = "idle"
  /\ \A q \in Reqs : q < r => req[q].pc # "idle"

\* a handler that answers without suspending in between
Atomic(r, op, user, id, url, resp) ==
  /\ CanBegin(r)
  /\ started' = started + 1
  /\ last' = Answer(op, user, id, url, resp)
  /\ UNCHANGED req

\* a handler that suspends: it keeps its locals in its slot; gets counts the
\* axios.get calls it has issued so far
Suspend(r, op, pc, user, id, url, doc, gets) ==
  /\ started' = started + 1
  /\ req' = [req EXCEPT ![r] = [op |-> op, pc |-> pc, user |-> user, id |-> id,
                                url |-> url, doc |-> doc, table |-> << >>,
                                gets |-> gets]]
  /\ UNCHANGED last

\* a suspended handler answers and its slot is free again
Complete(r, resp) ==
  /\ last' = Answer(req[r].op, req[r].user, req[r].id, req[r].url, resp)
  /\ req' = [req EXCEPT ![r] = IdleReq]
  /\ UNCHANGED started

\* --------------------------------------------------- the store handlers
\* ds => ({id, name, source, rowCount: ds.rows.length, row, headers, ...})
ListItem(s, i) ==
  [id |-> i, source |-> s[i].source, rowCount |-> Len(s[i].rows), row |-> s[i].rows,
   headers |-> s[i].headers, uploadedAt |-> s[i].uploadedAt,
   sheetUrl |-> s[i].sheetUrl, lastSyncedAt |-> s[i].lastSyncedAt]

\* (variant: .sort({uploadedAt: 1}))
SortedByUploadedAt_ascending(s, ids) ==
  {p \in [1..Cardinality(ids) -> ids] :
     /\ \A i, j \in 1..Cardinality(ids) : i # j => p[i] # p[j]
     /\ \A i, j \in 1..Cardinality(ids) : i < j => s[p[i]].uploadedAt <= s[p[j]].uploadedAt}

\* .sort({uploadedAt: -1}): every order of the ids with uploadedAt descending
\* (the order of documents with equal uploadedAt is not determined)
SortedByUploadedAt(s, ids) ==
  {p \in [1..Cardinality(ids) -> ids] :
     /\ \A i, j \in 1..Cardinality(ids) : i # j => p[i] # p[j]
     /\ \A i, j \in 1..Cardinality(ids) : i < j => s[p[i]].uploadedAt >= s[p[j]].uploadedAt}

getMyDatasetsResp(s, user, order) ==
  Resp(200, "", [count |-> Len(order),
                 datasets |-> [k \in 1..Len(order) |-> ListItem(s, order[k])]])

getMyDatasets(r) ==
  /\ \E user \in Users :
       \E order \in SortedByUploadedAt(store, FindByUser(store, user)) :
         Atomic(r, "getMyDatasets", user, BadId, NoUrl, getMyDatasetsResp(store, user, order))
  /\ UNCHANGED <<store, nextId, now, okSyncs, files, summaryCache, userContextCache>>

\* getDatasetById: the response as a function of the collection; a malformed
\* id makes the query throw (CastError) and the catch answers 500
getDatasetByIdResp(s, user, id) ==
  IF id = BadId THEN ErrResp(500, "Failed to fetch dataset", "CastError")
  ELSE LET m == FindByIdAndUser(s, id, user) IN
    IF m = {} THEN Resp(404, "Dataset not found", NoBody)
    ELSE LET d == s[First(m)] IN
      Resp(200, "", [id |-> First(m), source |-> d.source, headers |-> d.headers,
                     rows |-> d.rows, uploadedAt |-> d.uploadedAt])

getDatasetById(r) ==
  /\ \E user \in Users, id \in ReqIds :
       Atomic(r, "getDatasetById", user, id, NoUrl, getDatasetByIdResp(store, user, id))
  /\ UNCHANGED <<store, nextId, now, okSyncs, files, summaryCache, userContextCache>>

deleteDatasetByIdResp(s, user, id) ==
  IF id = BadId THEN ErrResp(500, "Failed to delete dataset", "CastError")
  ELSE IF FindByIdAndUser(s, id, user) = {}
    THEN Resp(404, "Dataset not found or already deleted", NoBody)
    ELSE Resp(200, "Dataset deleted successfully", NoBody)

\* (variant: deleteMany({userId}))
deleteDatasetByIdStore_allOfUser(s, user, id) ==
  IF FindByIdAndUser(s, id, user) = {} THEN s
  ELSE [i \in {j \in DOMAIN s : s[j].userId # user} |-> s[i]]

\* findOneAndDelete({_id, userId})
deleteDatasetByIdStore(s, user, id) ==
  IF FindByIdAndUser(s, id, user) = {} THEN s ELSE Remove(s, First(FindByIdAndUser(s, id, user)))

deleteDatasetById(r) ==
  /\ \E user \in Users, id \in ReqIds :
       /\ Atomic(r, "deleteDatasetById", user, id, NoUrl, deleteDatasetByIdResp(store, user, id))
       /\ store' = deleteDatasetByIdStore(store, user, id)
       /\ okSyncs' = [i \in DOMAIN store' |-> okSyncs[i]]
  /\ UNCHANGED <<nextId, now, files, summaryCache, userContextCache>>

deleteSheetResp(s, user, id) ==
  IF id = BadId THEN ErrResp(500, "Failed to delete sheet", "CastError")
  ELSE IF FindSheetByIdAndUser(s, id, user) = {}
    THEN Resp(404, "Dataset not found", NoBody)
    ELSE Resp(200, "Sheet deleted successfully", NoBody)

\* findOneAndDelete({_id, userId, source: "sheet"})
deleteSheetStore(s, user, id) ==
  IF FindSheetByIdAndUser(s, id, user) = {} THEN s
  ELSE Remove(s, First(FindSheetByIdAndUser(s, id, user)))

deleteSheet(r) ==
  /\ \E user \in Users, id \in ReqIds :
       /\ Atomic(r, "deleteSheet", user, id, NoUrl, deleteSheetResp(store, user, id))
       /\ store' = deleteSheetStore(store, user, id)
       /\ okSyncs' = [i \in DOMAIN store' |-> okSyncs[i]]
  /\ UNCHANGED <<nextId, now, files, summaryCache, userContextCache>>

\* exportDataset streams the headers and every row of the document it loaded
exportDatasetResp(s, user, id, type) ==
  IF id = BadId THEN Resp(400, "Invalid dataset ID format", NoBody)
  ELSE LET m == FindById(s, id) IN
    IF m = {} THEN Resp(404, "Dataset not found", NoBody)
    ELSE LET d == s[First(m)] IN
      Resp(200, "", [fileType |-> IF type = "pdf" THEN "pdf" ELSE "xlsx",
                     headers |-> d.headers,
                     rows |-> [k \in 1..Len(d.rows) |-> d.rows[k]]])

exportDataset(r) ==
  /\ \E user \in Users, id \in ReqIds, type \in {"pdf", "xlsx"} :
       Atomic(r, "exportDataset", user, id, NoUrl, exportDatasetResp(store, user, id, type))
  /\ UNCHANGED <<store, nextId, now, okSyncs, files, summaryCache, userContextCache>>

\* dataset.rows.slice(0, 30)
SampleRows == 30
Slice(rows, n) == SubSeq(rows, 1, IF Len(rows) < n THEN Len(rows) ELSE n)

\* getAISummary: the model's text is a function of the prompt, and the prompt
\* is built from the headers and the sampled rows
getAISummaryResp(s, user, id, aiOk) ==
  IF id = BadId THEN ErrResp(500, "AI Summary failed", "CastError")
  ELSE LET m == FindByIdAndUser(s, id, user) IN
    IF m = {}
    THEN Resp(404, "Dataset not found or you don't have permission to access it", NoBody)
    ELSE IF ~aiOk THEN ErrResp(500, "AI Summary failed", "generateContent")
    ELSE LET d == s[First(m)] IN
      Resp(200, "", [summary |-> [headers |-> d.headers, rows |-> Slice(d.rows, SampleRows)]])

getAISummary(r) ==
  /\ \E user \in Users, id \in ReqIds, aiOk \in BOOLEAN :
       Atomic(r, "getAISummary", user, id, NoUrl, getAISummaryResp(store, user, id, aiOk))
  /\ UNCHANGED <<store, nextId, now, okSyncs, files, summaryCache, userContextCache>>

\* ------------------------------------------------------------ uploadFile
\* (variant: the upload is stored with a sheetUrl)
storeAndRespondDoc_withSheetUrl(user, ext, headers, rows, t) ==
  NewDataset(user, IF ext = ".csv" THEN "csv" ELSE "docs", GoodUrl, headers, rows, t)

\* storeAndRespond: DATASHEET.create({userId, name, source, headers, rows})
storeAndRespondDoc(user, ext, headers, rows, t) ==
  NewDataset(user, IF ext = ".csv" THEN "csv" ELSE "docs", NoUrl, headers, rows, t)

\* the last-resort path of the temporary file: `${Date.now()}-${baseName}${ext}`
\* under the uploads directory (multer keeps the upload in memory, so the
\* handler itself writes the buffer to disk)
TempPath(t, ext) == <<t, ext>>

\* lines 25-27 and 120-183: the answer when the handler stops before
\* storeAndRespond, << >> when it goes on to DATASHEET.create
uploadFileReject(ext, parse, readOk) ==
  IF ext = "nofile" THEN <<Resp(400, "No file uploaded", NoBody)>>
  ELSE IF ext = ".csv" THEN
    IF ~readOk THEN <<Resp(400, "Failed to read CSV file", NoBody)>>
    ELSE IF Len(parse.data) = 0 \/ Len(parse.fields) = 0
      THEN <<Resp(400, "CSV file is empty or malformed", NoBody)>>
    ELSE << >>
  ELSE IF ext \in {".xlsx", ".xls"} THEN
    IF ~readOk THEN <<Resp(400, "Excel parse error: read", NoBody)>>
    ELSE IF Len(parse.data) = 0
      THEN <<Resp(400, "Excel file is empty or has no data", NoBody)>>
    ELSE << >>
  ELSE <<Resp(400, "Unsupported file format. Only CSV and Excel files are allowed.", NoBody)>>

\* lines 19-183 up to the await of DATASHEET.create: the buffer is written to
\* the temporary file, the file is read and parsed, and every path that stops
\* here deletes the file before it answers
uploadFile(r) ==
  /\ \E user \in Users, ext \in {"nofile", ".csv", ".xlsx", ".txt"},
        parse \in CsvParses, readOk \in BOOLEAN :
       LET rej == uploadFileReject(ext, parse, readOk)
           path == TempPath(now, ext)
           headers == IF ext = ".csv" THEN parse.fields ELSE HeadersOf(parse.data)
       IN
         /\ ext # ".csv" => parse.fields = HeadersOf(parse.data)
         /\ IF rej # << >>
            THEN /\ Atomic(r, "uploadFile", user, BadId, NoUrl, rej[1])
                 /\ files' = IF ext = "nofile" THEN files ELSE files \ {path}
            ELSE /\ CanBegin(r)
                 /\ Suspend(r, "uploadFile", "create", user, BadId, NoUrl,
                            <<[ext |-> ext, headers |-> headers, rows |-> parse.data,
                               path |-> path]>>, 0)
                 /\ files' = files \cup {path}
  /\ UNCHANGED <<store, nextId, now, okSyncs, summaryCache, userContextCache>>

\* (variant: the temporary file is deleted on success only)
uploadFile_create_keepsOnError(r) ==
  /\ req[r].op = "uploadFile" /\ req[r].pc = "create"
  /\ LET l == req[r].doc[1] IN
       \E dbOk \in BOOLEAN :
         IF dbOk
         THEN /\ store' = Insert(store, nextId,
                             storeAndRespondDoc(req[r].user, l.ext, l.headers, l.rows, now))
              /\ okSyncs' = Insert(okSyncs, nextId, 0)
              /\ nextId' = nextId + 1
              /\ files' = files \ {l.path}
              /\ Complete(r, Resp(201, "File uploaded & parsed successfully",
                   [datasetId |-> nextId, rowCount |-> Len(l.rows), headers |-> l.headers]))
         ELSE /\ UNCHANGED <<store, nextId, okSyncs, files>>
              /\ Complete(r, IF l.ext = ".csv" THEN Resp(500, "dbError", NoBody)
                             ELSE Resp(400, "Excel parse error: dbError", NoBody))
  /\ UNCHANGED <<now, summaryCache, userContextCache>>

\* (variant: the record is written although the create reports an error)
uploadFile_create_storesOnError(r) ==
  /\ req[r].op = "uploadFile" /\ req[r].pc = "create"
  /\ LET l == req[r].doc[1] IN
       \E dbOk \in BOOLEAN :
         /\ files' = files \ {l.path}
         /\ store' = Insert(store, nextId,
                             storeAndRespondDoc(req[r].user, l.ext, l.headers, l.rows, now))
         /\ okSyncs' = Insert(okSyncs, nextId, 0)
         /\ nextId' = nextId + 1
         /\ IF dbOk
            THEN Complete(r, Resp(201, "File uploaded & parsed successfully",
                   [datasetId |-> nextId, rowCount |-> Len(l.rows), headers |-> l.headers]))
            ELSE Complete(r, IF l.ext = ".csv" THEN Resp(500, "dbError", NoBody)
                             ELSE Resp(400, "Excel parse error: dbError", NoBody))
  /\ UNCHANGED <<now, summaryCache, userContextCache>>

\* the error-handling middleware: res.status(err.statusCode || 500).json(...)
\* (an error without a statusCode is written 0 here)
GlobalErrorHandler(statusCode, message) ==
  Resp(IF statusCode = 0 THEN 500 ELSE statusCode, message, NoBody)

\* catchAsyncError(handler): a rejection of the promise the handler returns is
\* passed to next, that is to the error-handling middleware; the responses
\* this sends
catchAsyncError(rejection) ==
  IF rejection = << >> THEN << >>
  ELSE <<GlobalErrorHandler(rejection[1].statusCode, rejection[1].message)>>

\* what the client gets from a handler that has sent these responses: the
\* response when it is the only one, and otherwise no answer to rely on
Delivered(sent) ==
  IF Len(sent) = 1 THEN sent[1]
  ELSE Resp(0, "no single response", [responses |-> Len(sent)])

\* (variant: the catch of the CSV branch drops the error instead of rejecting)
uploadFile_create_swallowsRejection(r) ==
  /\ req[r].op = "uploadFile" /\ req[r].pc = "create"
  /\ LET l == req[r].doc[1] IN
       \E dbOk \in BOOLEAN :
         /\ files' = files \ {l.path}
         /\ IF dbOk
            THEN /\ store' = Insert(store, nextId,
                                storeAndRespondDoc(req[r].user, l.ext, l.headers, l.rows, now))
                 /\ okSyncs' = Insert(okSyncs, nextId, 0)
                 /\ nextId' = nextId + 1
                 /\ Complete(r, Delivered(<<Resp(201, "File uploaded & parsed successfully",
                      [datasetId |-> nextId, rowCount |-> Len(l.rows), headers |-> l.headers])>>))
            ELSE /\ UNCHANGED <<store, nextId, okSyncs>>
                 /\ Complete(r, Delivered(
                      IF l.ext = ".csv"
                      THEN catchAsyncError(<< >>)
                      ELSE <<GlobalErrorHandler(400, "Excel parse error: dbError")>>))
  /\ UNCHANGED <<now, summaryCache, userContextCache>>

\* storeAndRespond, lines 96-118: DATASHEET.create, then deleteFileIfExists on
\* both outcomes and the 201 on success; a database error of the CSV branch
\* rejects the promise the handler returned (lines 141-143), the Excel branch
\* catches it and calls next with a 400 (lines 173-176)
uploadFile_create(r) ==
  /\ req[r].op = "uploadFile" /\ req[r].pc = "create"
  /\ LET l == req[r].doc[1] IN
       \E dbOk \in BOOLEAN :
         /\ files' = files \ {l.path}
         /\ IF dbOk
            THEN /\ store' = Insert(store, nextId,
                                storeAndRespondDoc(req[r].user, l.ext, l.headers, l.rows, now))
                 /\ okSyncs' = Insert(okSyncs, nextId, 0)
                 /\ nextId' = nextId + 1
                 /\ Complete(r, Delivered(<<Resp(201, "File uploaded & parsed successfully",
                      [datasetId |-> nextId, rowCount |-> Len(l.rows), headers |-> l.headers])>>))
            ELSE /\ UNCHANGED <<store, nextId, okSyncs>>
                 /\ Complete(r, Delivered(
                      IF l.ext = ".csv"
                      THEN catchAsyncError(<<[statusCode |-> 0, message |-> "dbError"]>>)
                      ELSE <<GlobalErrorHandler(400, "Excel parse error: dbError")>>))
  /\ UNCHANGED <<now, summaryCache, userContextCache>>

\* ------------------------------------------------- document.save() (update)
\* The fields the two sync paths assign before save().
SyncFields == {"headers", "rows", "rowCount", "lastSyncedAt", "syncCount"}

\* (variant: rowCount is not assigned)
Assigned_staleRowCount(loaded, rows, t) ==
  [loaded EXCEPT !.headers = HeadersOf(rows), !.rows = rows,
                 !.lastSyncedAt = t, !.syncCount = loaded.syncCount + 1]

\* (variant: syncCount is assigned without the increment)
Assigned_noIncrement(loaded, rows, t) ==
  [loaded EXCEPT !.headers = HeadersOf(rows), !.rows = rows, !.rowCount = Len(rows),
                 !.lastSyncedAt = t, !.syncCount = loaded.syncCount]

\* dataset.headers = headers; dataset.rows = rows; dataset.rowCount = rowCount;
\* dataset.lastSyncedAt = new Date(); dataset.syncCount = (syncCount || 0) + 1
Assigned(loaded, rows, t) ==
  [loaded EXCEPT !.headers = HeadersOf(rows), !.rows = rows, !.rowCount = Len(rows),
                 !.lastSyncedAt = t, !.syncCount = loaded.syncCount + 1]

\* (variant: versionKey false, the filter never carries __v)
SaveUpdate_unversioned(s, id, loaded, new) ==
  LET modified == {f \in SyncFields : new[f] # loaded[f]}
  IN IF id \notin DOMAIN s
       THEN [ok |-> FALSE, error |-> "DocumentNotFoundError", store |-> s]
     ELSE [ok |-> TRUE, error |-> "",
           store |-> [s EXCEPT ![id] =
                        [f \in DOMAIN s[id] |->
                           IF f \in modified THEN new[f] ELSE s[id][f]]]]

\* save() of a loaded document sends one updateOne with a $set of the paths
\* whose value differs from the loaded one.  When an array path is among them
\* the filter carries the loaded __v and the update increments it (the schema
\* keeps the default versionKey); a filter that matches nothing is an error.
SaveUpdate(s, id, loaded, new) ==
  LET modified == {f \in SyncFields : new[f] # loaded[f]}
      versioned == modified \cap {"headers", "rows"} # {}
  IN IF id \notin DOMAIN s
       THEN [ok |-> FALSE, error |-> "DocumentNotFoundError", store |-> s]
     ELSE IF versioned /\ s[id].v # loaded.v
       THEN [ok |-> FALSE, error |-> "VersionError", store |-> s]
     ELSE [ok |-> TRUE, error |-> "",
           store |-> [s EXCEPT ![id] =
                        [f \in DOMAIN s[id] |->
                           IF f \in modified THEN new[f]
                           ELSE IF f = "v" /\ versioned THEN s[id].v + 1
                           ELSE s[id][f]]]]

\* (variant: the comparison the other way round)
ChangeType_reversed(delta) ==
  IF delta < 0 THEN "added" ELSE IF delta > 0 THEN "removed" ELSE "no change"

\* rowsChanged > 0 ? 'added' : rowsChanged < 0 ? 'removed' : 'no change'
ChangeType(delta) == IF delta > 0 THEN "added" ELSE IF delta < 0 THEN "removed" ELSE "no change"

Abs(n) == IF n < 0 THEN 0 - n ELSE n

\* JSON.stringify of an array of strings, as the list of its tokens
RECURSIVE Joined(_)
Joined(h) ==
  IF Len(h) = 0 THEN << >>
  ELSE IF Len(h) = 1 THEN <<h[1]>>
  ELSE <<h[1], ",">> \o Joined(Tail(h))

JSONStringify(h) == <<"[">> \o Joined(h) \o <<"]">>

\* (variant: the headers compared as sets of names)
HeadersChanged_asSets(headers, previousHeaders) ==
  {headers[i] : i \in 1..Len(headers)} # {previousHeaders[i] : i \in 1..Len(previousHeaders)}

\* JSON.stringify(headers) !== JSON.stringify(previousHeaders)
HeadersChanged(headers, previousHeaders) ==
  JSONStringify(headers) # JSONStringify(previousHeaders)

\* the document a findOne returned, kept by the handler across its awaits
Loaded(s, ids) == IF ids = {} THEN << >> ELSE <<[id |-> First(ids), d |-> s[First(ids)]]>>

\* axios.get(csvUrl) is called without a config, so the request runs with
\* axios' default timeout 0: it is never cut off
AxiosTimeout == 0

\* how a pending axios.get can settle: a 2xx response, a rejection (network
\* error or another status), and the timeout when one is configured
AxiosOutcomes(timeout) ==
  {"response", "error"} \cup (IF timeout > 0 THEN {"timeout"} ELSE {})

\* ------------------------------------------------------- googleSheetData
\* lines 6-28: validate the URL, look the sheet up, then issue the GET
googleSheetData(r) ==
  /\ \E user \in Users, url \in Urls :
       IF url = NoUrl
       THEN Atomic(r, "googleSheetData", user, BadId, url,
                   Resp(400, "Sheet URL is required", NoBody))
       ELSE IF RegexMatch(url) = << >>
       THEN Atomic(r, "googleSheetData", user, BadId, url,
                   Resp(400, "Invalid Google Sheet URL", NoBody))
       ELSE /\ CanBegin(r)
            /\ Suspend(r, "googleSheetData", "fetch", user, BadId, url,
                       Loaded(store, FindSheetByUrl(store, user, url)), 1)
  /\ UNCHANGED <<store, nextId, now, okSyncs, files, summaryCache, userContextCache>>

\* (variant: a rejected GET is issued once more before the handler gives up)
googleSheetData_fetch_retries(r) ==
  /\ req[r].op = "googleSheetData" /\ req[r].pc = "fetch"
  /\ \E out \in AxiosOutcomes(AxiosTimeout), t \in Tables :
       IF out = "response"
       THEN /\ req' = [req EXCEPT ![r].pc = "save", ![r].table = t]
            /\ UNCHANGED <<last, started>>
       ELSE /\ t = << >>
            /\ IF req[r].gets < 2
               THEN /\ req' = [req EXCEPT ![r].gets = @ + 1]
                    /\ UNCHANGED <<last, started>>
               ELSE Complete(r, ErrResp(500, "Failed to import sheet", "fetch"))
  /\ now' = now + 1
  /\ UNCHANGED <<store, nextId, okSyncs, files, summaryCache, userContextCache>>

\* lines 30-33: axios.get(csvUrl) settles and csv().fromString parses the
\* body; the round trip takes time
googleSheetData_fetch(r) ==
  /\ req[r].op = "googleSheetData" /\ req[r].pc = "fetch"
  /\ \E out \in AxiosOutcomes(AxiosTimeout), t \in Tables :
       IF out = "response"
       THEN /\ req' = [req EXCEPT ![r].pc = "save", ![r].table = t]
            /\ UNCHANGED <<last, started>>
       ELSE /\ t = << >>
            /\ Complete(r, ErrResp(500, "Failed to import sheet", "fetch"))
  /\ now' = now + 1
  /\ UNCHANGED <<store, nextId, okSyncs, files, summaryCache, userContextCache>>

\* lines 35-64: the update branch
googleSheetData_update(r) ==
  LET loaded == req[r].doc[1]
      rows == req[r].table
      new == Assigned(loaded.d, rows, now)
      out == SaveUpdate(store, loaded.id, loaded.d, new)
      rowsAdded == Len(rows) - loaded.d.rowCount
  IN /\ store' = out.store
     /\ UNCHANGED nextId
     /\ IF out.ok
        THEN /\ okSyncs' = [okSyncs EXCEPT ![loaded.id] = @ + 1]
             /\ Complete(r, Resp(200, "Sheet updated successfully",
                  [datasetId |-> loaded.id, rowCount |-> Len(rows),
                   headers |-> HeadersOf(rows), isUpdate |-> TRUE,
                   syncCount |-> new.syncCount,
                   previousRowCount |-> loaded.d.rowCount, currentRowCount |-> Len(rows),
                   rowsChanged |-> Abs(rowsAdded), changeType |-> ChangeType(rowsAdded),
                   lastSyncedAt |-> new.lastSyncedAt]))
        ELSE /\ UNCHANGED okSyncs
             /\ Complete(r, ErrResp(500, "Failed to import sheet", out.error))

\* lines 65-85: the create branch
googleSheetData_create(r) ==
  LET rows == req[r].table
      doc == NewDataset(req[r].user, "sheet", req[r].url, HeadersOf(rows), rows, now)
  IN IF Validates(doc)
     THEN /\ store' = Insert(store, nextId, doc)
          /\ okSyncs' = Insert(okSyncs, nextId, 0)
          /\ nextId' = nextId + 1
          /\ Complete(r, Resp(201, "Sheet imported successfully",
               [datasetId |-> nextId, rowCount |-> Len(rows), headers |-> HeadersOf(rows),
                isUpdate |-> FALSE, syncCount |-> 1, lastSyncedAt |-> doc.lastSyncedAt]))
     ELSE /\ UNCHANGED <<store, nextId, okSyncs>>
          /\ Complete(r, ErrResp(500, "Failed to import sheet", "ValidationError"))

googleSheetData_save(r) ==
  /\ req[r].op = "googleSheetData" /\ req[r].pc = "save"
  /\ IF req[r].doc # << >> THEN googleSheetData_update(r) ELSE googleSheetData_create(r)
  /\ UNCHANGED <<now, files, summaryCache, userContextCache>>

\* ------------------------------------------------------- syncGoogleSheet
\* lines 94-115: load the sheet dataset of the caller and derive the export
\* URL; the answer when the handler stops here, << >> when it goes on to fetch
syncGoogleSheetReject(s, user, id) ==
  LET m == FindSheetByIdAndUser(s, id, user) IN
  IF id = BadId THEN <<ErrResp(500, "Failed to sync sheet", "CastError")>>
  ELSE IF m = {} THEN <<Resp(404, "Dataset not found", NoBody)>>
  ELSE IF s[First(m)].sheetUrl = NoUrl
    THEN <<Resp(400, "Sheet URL not found in dataset", NoBody)>>
  ELSE IF RegexMatch(s[First(m)].sheetUrl) = << >>
    THEN <<ErrResp(500, "Failed to sync sheet", "TypeError")>>
  ELSE << >>

syncGoogleSheet(r) ==
  /\ \E user \in Users, id \in ReqIds :
       LET rej == syncGoogleSheetReject(store, user, id) IN
       IF rej # << >>
       THEN Atomic(r, "syncGoogleSheet", user, id, NoUrl, rej[1])
       ELSE /\ CanBegin(r)
            /\ Suspend(r, "syncGoogleSheet", "fetch", user, id, NoUrl,
                       Loaded(store, FindSheetByIdAndUser(store, id, user)), 1)
  /\ UNCHANGED <<store, nextId, now, okSyncs, files, summaryCache, userContextCache>>

\* (variant: the stored rows are cleared before the fetch is awaited)
syncGoogleSheet_fetch_clearsFirst(r) ==
  /\ req[r].op = "syncGoogleSheet" /\ req[r].pc = "fetch"
  /\ \E out \in AxiosOutcomes(AxiosTimeout), t \in Tables :
       IF out = "response"
       THEN /\ req' = [req EXCEPT ![r].pc = "save", ![r].table = t]
            /\ UNCHANGED <<last, started>>
       ELSE /\ t = << >>
            /\ Complete(r, ErrResp(500, "Failed to sync sheet", "fetch"))
  /\ now' = now + 1
  /\ store' = IF req[r].id \in DOMAIN store
              THEN [store EXCEPT ![req[r].id].rows = << >>, ![req[r].id].rowCount = 0]
              ELSE store
  /\ UNCHANGED <<nextId, okSyncs, files, summaryCache, userContextCache>>

\* lines 117-120
syncGoogleSheet_fetch(r) ==
  /\ req[r].op = "syncGoogleSheet" /\ req[r].pc = "fetch"
  /\ \E out \in AxiosOutcomes(AxiosTimeout), t \in Tables :
       IF out = "response"
       THEN /\ req' = [req EXCEPT ![r].pc = "save", ![r].table = t]
            /\ UNCHANGED <<last, started>>
       ELSE /\ t = << >>
            /\ Complete(r, ErrResp(500, "Failed to sync sheet", "fetch"))
  /\ now' = now + 1
  /\ UNCHANGED <<store, nextId, okSyncs, files, summaryCache, userContextCache>>

\* lines 122-151
syncGoogleSheet_save(r) ==
  /\ req[r].op = "syncGoogleSheet" /\ req[r].pc = "save"
  /\ LET loaded == req[r].doc[1]
         rows == req[r].table
         new == Assigned(loaded.d, rows, now)
         out == SaveUpdate(store, loaded.id, loaded.d, new)
         rowsChanged == Len(rows) - loaded.d.rowCount
     IN /\ store' = out.store
        /\ IF out.ok
           THEN /\ okSyncs' = [okSyncs EXCEPT ![loaded.id] = @ + 1]
                /\ Complete(r, Resp(200, "Sheet synced successfully",
                     [datasetId |-> loaded.id, rowCount |-> Len(rows),
                      headers |-> HeadersOf(rows), syncCount |-> new.syncCount,
                      previousRowCount |-> loaded.d.rowCount, currentRowCount |-> Len(rows),
                      rowsChanged |-> rowsChanged,
                      headersChanged |-> HeadersChanged(HeadersOf(rows), loaded.d.headers),
                      changeType |-> ChangeType(rowsChanged),
                      lastSyncedAt |-> new.lastSyncedAt]))
           ELSE /\ UNCHANGED okSyncs
                /\ Complete(r, ErrResp(500, "Failed to sync sheet", out.error))
  /\ UNCHANGED <<nextId, now, files, summaryCache, userContextCache>>

\* ------------------------------------------------------------ the system
\* a client issues a request
Begin ==
  \E r \in Reqs :
    \/ uploadFile(r)
    \/ getMyDatasets(r)
    \/ getDatasetById(r)
    \/ deleteDatasetById(r)
    \/ deleteSheet(r)
    \/ exportDataset(r)
    \/ getAISummary(r)
    \/ googleSheetData(r)
    \/ syncGoogleSheet(r)

\* a suspended handler resumes
Continue ==
  \E r \in Reqs :
    \/ uploadFile_create(r)
    \/ googleSheetData_fetch(r)
    \/ googleSheetData_save(r)
    \/ syncGoogleSheet_fetch(r)
    \/ syncGoogleSheet_save(r)

Next == Begin \/ Continue

Spec == Init /\ [][Next]_vars

\* the same system when every request is answered before the next is issued
NoneInFlight == \A q \in Reqs : req[q].pc = "idle"

NextSeq == (NoneInFlight /\ Begin) \/ Continue

SpecSeq == Init /\ [][NextSeq]_vars

\* DATASHEET.create settles (the driver resolves it or rejects it after its
\* own timeouts), so a handler that awaits it is resumed
SpecFair == Spec /\ \A r \in Reqs : WF_vars(uploadFile_create(r))

\* ------------------------------------------- the AI endpoints (v1)
\* aiController.js line 26 and assisantHelper.js line 8 (both are named
\* CACHE_TTL in their module), in milliseconds
CACHE_TTL == 10 * 60 * 1000
CONTEXT_CACHE_TTL == 5 * 60 * 1000

\* const sampleSize = Math.min(50, dataset.rows?.length || 0)
SampleSize == 50

\* cacheKey = `summary_${datasetId}_${userId}`
SummaryKey(datasetId, userId) == <<datasetId, userId>>

\* cacheKey = `user_context_${userId}`
ContextKey(userId) == <<"user_context", userId>>

\* (variant: an entry is served up to and including the TTL)
Fresh_inclusive(entry, t, ttl) == t - entry.timestamp <= ttl

\* Date.now() - cached.timestamp < CACHE_TTL
Fresh(entry, t, ttl) == t - entry.timestamp < ttl

\* the periodic cleanups delete the entries with now - timestamp > CACHE_TTL
Swept(cache, t, ttl) ==
  [k \in {x \in DOMAIN cache : ~(t - cache[x].timestamp > ttl)} |-> cache[k]]

\* lines 89-162: the prompt is built from the headers, the first 50 rows and
\* rowCount, and the summary the model writes is a function of the prompt
SummaryOf(d) ==
  [headers |-> d.headers, rows |-> Slice(d.rows, SampleSize), totalRows |-> d.rowCount]

\* getAISummary, lines 39-72: the cache is consulted before the dataset is
\* looked up; an expired entry is deleted and the handler goes on to findOne
aiController_getAISummary(r) ==
  /\ \E user \in Users, id \in ReqIds :
       LET key == SummaryKey(id, user) IN
       IF key \in DOMAIN summaryCache /\ Fresh(summaryCache[key], now, CACHE_TTL)
       THEN /\ Atomic(r, "getAISummary", user, id, NoUrl,
                      Resp(200, "", [summary |-> summaryCache[key].data, cached |-> TRUE]))
            /\ UNCHANGED summaryCache
       ELSE /\ CanBegin(r)
            /\ Suspend(r, "getAISummary", "load", user, id, NoUrl, << >>, 0)
            /\ summaryCache' = Remove(summaryCache, key)
  /\ UNCHANGED <<store, nextId, now, okSyncs, files, userContextCache>>

\* lines 74-162: findOne({_id, userId}) has settled
aiController_getAISummary_load(r) ==
  /\ req[r].op = "getAISummary" /\ req[r].pc = "load"
  /\ LET m == FindByIdAndUser(store, req[r].id, req[r].user) IN
       IF req[r].id = BadId
       THEN Complete(r, GlobalErrorHandler(500, "AI summary generation failed. Please try again later."))
       ELSE IF m = {}
       THEN Complete(r, GlobalErrorHandler(404, "Dataset not found or access denied."))
       ELSE IF Len(store[First(m)].rows) = 0
       THEN Complete(r, GlobalErrorHandler(400, "Dataset is empty. Please upload data first."))
       ELSE /\ req' = [req EXCEPT ![r].pc = "generate",
                                  ![r].doc = <<SummaryOf(store[First(m)])>>]
            /\ UNCHANGED <<last, started>>
  /\ UNCHANGED <<store, nextId, now, okSyncs, files, summaryCache, userContextCache>>

\* lines 166-234: generateContent raced against the 25 s timer; only a
\* non-empty text is cached and answered with 200
aiController_getAISummary_generate(r) ==
  /\ req[r].op = "getAISummary" /\ req[r].pc = "generate"
  /\ \E out \in {"text", "empty", "timeout", "error"} :
       IF out = "text"
       THEN /\ summaryCache' = Insert(summaryCache, SummaryKey(req[r].id, req[r].user),
                                      [data |-> req[r].doc[1], timestamp |-> now])
            /\ Complete(r, Resp(200, "", [summary |-> req[r].doc[1], cached |-> FALSE]))
       ELSE /\ UNCHANGED summaryCache
            /\ Complete(r, GlobalErrorHandler(
                 IF out = "empty" THEN 503 ELSE IF out = "timeout" THEN 408 ELSE 500, out))
  /\ UNCHANGED <<store, nextId, now, okSyncs, files, userContextCache>>

\* aiController.js lines 29-36: setInterval cleanup of the summary cache
summaryCacheCleanup ==
  /\ summaryCache' = Swept(summaryCache, now, CACHE_TTL)
  /\ UNCHANGED <<store, nextId, now, req, started, last, okSyncs, files, userContextCache>>

\* assisantHelper.js lines 426-442, run by setInterval (aiAssestant.js line 34)
cleanupCache ==
  /\ userContextCache' = Swept(userContextCache, now, CONTEXT_CACHE_TTL)
  /\ UNCHANGED <<store, nextId, now, req, started, last, okSyncs, files, summaryCache>>

\* fetchUserContext lines 106-168: the profile of the user and the summary of
\* the user's datasets (ids, headers, row counts; at most 10 of them, which is
\* all of them here)
UserContext(s, userId) ==
  [profile |-> userId,
   dataSummary |-> {[id |-> i, headers |-> s[i].headers, rowCount |-> s[i].rowCount] :
                      i \in FindByUser(s, userId)}]

\* router.post("/assistant", askAssistant): the route has no isAuthenticated
\* before the handler, so req.user is not set whoever calls ("" is null)
AssistantReqUser(caller) == ""

\* const userId = id || (req.user?.id || null)
AssistantUserId(bodyId, reqUser) == IF bodyId # "" THEN bodyId ELSE reqUser

\* askAssistant lines 37-80 with fetchUserContext lines 85-100: validation,
\* then for a personal question the context, from the cache when fresh (the
\* caller is user A with a valid token, or somebody without one; a general
\* question makes no use of userId)
askAssistant(r) ==
  /\ \E caller \in {"A", "anon"}, bodyId \in Users \cup {""},
        question \in {"", "general", "personal"} :
       LET userId == AssistantUserId(bodyId, AssistantReqUser(caller))
           key == ContextKey(userId)
           locals(u, ctx) == <<[userId |-> u, context |-> ctx]>>
       IN
       IF question = ""
       THEN /\ Atomic(r, "askAssistant", caller, BadId, NoUrl,
                      GlobalErrorHandler(400, "Question is required and cannot be empty."))
            /\ UNCHANGED userContextCache
       ELSE IF question = "personal" /\ userId = ""
       THEN /\ Atomic(r, "askAssistant", caller, BadId, NoUrl,
                      Resp(200, "", [answer |-> << >>, requiresAuth |-> TRUE]))
            /\ UNCHANGED userContextCache
       ELSE IF question = "general"
       THEN /\ CanBegin(r)
            /\ Suspend(r, "askAssistant", "generate", caller, BadId, NoUrl, locals("", << >>), 0)
            /\ UNCHANGED userContextCache
       ELSE IF key \in DOMAIN userContextCache
               /\ Fresh(userContextCache[key], now, CONTEXT_CACHE_TTL)
       THEN /\ CanBegin(r)
            /\ Suspend(r, "askAssistant", "generate", caller, BadId, NoUrl,
                       locals(userId, <<userContextCache[key].data>>), 0)
            /\ UNCHANGED userContextCache
       ELSE /\ CanBegin(r)
            /\ Suspend(r, "askAssistant", "context", caller, BadId, NoUrl, locals(userId, << >>), 0)
            /\ userContextCache' = Remove(userContextCache, key)
  /\ UNCHANGED <<store, nextId, now, okSyncs, files, summaryCache>>

\* askAssistant lines 73-93 with fetchUserContext lines 102-187: the two
\* queries raced against the 5 s timer.  When the timer wins the request is
\* answered 408 and fetchUserContext goes on by itself
askAssistant_context(r) ==
  /\ req[r].op = "askAssistant" /\ req[r].pc = "context"
  /\ \E out \in {"loaded", "error", "timeout"} :
       LET l == req[r].doc[1]
           ctx == UserContext(store, l.userId)
       IN
       IF out = "loaded"
       THEN /\ userContextCache' = Insert(userContextCache, ContextKey(l.userId),
                                          [data |-> ctx, timestamp |-> now])
            /\ req' = [req EXCEPT ![r].pc = "generate",
                                  ![r].doc = <<[l EXCEPT !.context = <<ctx>>]>>]
            /\ UNCHANGED <<last, started>>
       ELSE IF out = "error"
       THEN /\ UNCHANGED userContextCache
            /\ Complete(r, GlobalErrorHandler(500, "Unable to fetch user data. Please try again later."))
       ELSE /\ UNCHANGED <<userContextCache, started>>
            /\ last' = Answer("askAssistant", req[r].user, BadId, NoUrl,
                              GlobalErrorHandler(408, "Data fetch timeout. Please try again."))
            /\ req' = [req EXCEPT ![r].pc = "detached"]
  /\ UNCHANGED <<store, nextId, now, okSyncs, files, summaryCache>>

\* fetchUserContext lines 106-187 after its caller has given up: the queries
\* settle, and a loaded context is cached all the same
fetchUserContext_detached(r) ==
  /\ req[r].op = "askAssistant" /\ req[r].pc = "detached"
  /\ \E loaded \in BOOLEAN :
       userContextCache' =
         IF loaded
         THEN Insert(userContextCache, ContextKey(req[r].doc[1].userId),
                     [data |-> UserContext(store, req[r].doc[1].userId), timestamp |-> now])
         ELSE userContextCache
  /\ req' = [req EXCEPT ![r] = IdleReq]
  /\ UNCHANGED <<store, nextId, now, started, last, okSyncs, files, summaryCache>>

\* askAssistant lines 96-170: the prompt carries the context, and the answer
\* the model writes is a function of the prompt
askAssistant_generate(r) ==
  /\ req[r].op = "askAssistant" /\ req[r].pc = "generate"
  /\ \E out \in {"text", "timeout", "error"} :
       IF out = "text"
       THEN Complete(r, Resp(200, "", [answer |-> req[r].doc[1].context,
                                       requiresAuth |-> FALSE]))
       ELSE Complete(r, GlobalErrorHandler(IF out = "timeout" THEN 408 ELSE 500, out))
  /\ UNCHANGED <<store, nextId, now, okSyncs, files, summaryCache, userContextCache>>

\* the server has been up for a while: user A has imported a sheet and user B
\* has uploaded a file
Epoch == 2

InitAI ==
  /\ store = <<NewDataset("A", "sheet", GoodUrl, HeadersOf(<<Row_ab1>>), <<Row_ab1>>, Epoch),
               storeAndRespondDoc("B", ".csv", <<"a">>, <<Row_a1>>, Epoch)>>
  /\ nextId = 3
  /\ now = Epoch
  /\ req = [r \in Reqs |-> IdleReq]
  /\ started = 0
  /\ last = Answer("none", "A", BadId, NoUrl, NoResp)
  /\ okSyncs = <<0, 0>>
  /\ files = {}
  /\ summaryCache = << >>
  /\ userContextCache = << >>

\* the instants at which an entry cached at Epoch has reached the TTL of the
\* context cache, is one millisecond short of the TTL of the summary cache,
\* has reached it, and has passed it
Instants ==
  {Epoch + CONTEXT_CACHE_TTL, Epoch + CACHE_TTL - 1, Epoch + CACHE_TTL,
   Epoch + CACHE_TTL + 1}

\* time passes between requests
Elapse ==
  /\ \E t \in Instants : t > now /\ now' = t
  /\ UNCHANGED <<store, nextId, req, started, last, okSyncs, files,
                 summaryCache, userContextCache>>

BeginAI ==
  \E r \in Reqs :
    \/ aiController_getAISummary(r)
    \/ askAssistant(r)
    \/ deleteDatasetById(r)

ContinueAI ==
  \E r \in Reqs :
    \/ aiController_getAISummary_load(r)
    \/ aiController_getAISummary_generate(r)
    \/ askAssistant_context(r)
    \/ fetchUserContext_detached(r)
    \/ askAssistant_generate(r)

NextAI == BeginAI \/ ContinueAI \/ Elapse \/ summaryCacheCleanup \/ cleanupCache

SpecAI == InitAI /\ [][NextAI]_vars

\* =================================================================
\* Properties
\* =================================================================
OwnedBy(s, u) == {i \in DOMAIN s : s[i].userId = u}

\* the collection with every document of another user taken away
OwnView(s, u) == [i \in OwnedBy(s, u) |-> s[i]]

\* the step is taken by a request made with the identity u
StepBy(u) ==
  IF req' = req THEN last'.user = u
  ELSE \E r \in Reqs : /\ req'[r] # req[r]
                       /\ u = IF req[r].pc = "idle" THEN req'[r].user ELSE req[r].user

\* the ids of the datasets whose content an answer carries
ReturnedIds(a) ==
  IF a.resp.status # 200 THEN {}
  ELSE IF a.op = "getDatasetById" THEN {a.resp.body.id}
  ELSE IF a.op = "getMyDatasets"
    THEN {a.resp.body.datasets[k].id : k \in 1..a.resp.body.count}
  ELSE IF a.op = "syncGoogleSheet" THEN {a.resp.body.datasetId}
  ELSE {}

\* C1: tenant isolation.  A step of a request made as u leaves every dataset
\* of another user in the collection with exactly the same stored state, and
\* what getDatasetById, getMyDatasets and syncGoogleSheet answer carries
\* datasets of u only.
C1_TenantIsolation ==
  [][\A u \in Users : StepBy(u) =>
       /\ \A i \in DOMAIN store :
            store[i].userId # u => (i \in DOMAIN store' /\ store'[i] = store[i])
       /\ (last' # last \/ req' = req) =>
            \A i \in ReturnedIds(last') : i \in DOMAIN store /\ store[i].userId = u]_vars

\* a request of A aimed at a dataset of B was refused and the dataset is there
C1_Witness ==
  /\ last.op \in {"deleteDatasetById", "deleteSheet", "syncGoogleSheet", "getDatasetById"}
  /\ last.user = "A"
  /\ last.id \in DOMAIN store
  /\ store[last.id].userId = "B"
  /\ last.resp.status = 404

\* what each handler answers for an id that no document has
NotFoundResp(op, user, id) ==
  IF op = "exportDataset" THEN exportDatasetResp(<< >>, user, id, "pdf")
  ELSE IF op = "getAISummary" THEN getAISummaryResp(<< >>, user, id, TRUE)
  ELSE IF op = "getDatasetById" THEN getDatasetByIdResp(<< >>, user, id)
  ELSE IF op = "deleteDatasetById" THEN deleteDatasetByIdResp(<< >>, user, id)
  ELSE syncGoogleSheetReject(<< >>, user, id)[1]

\* the last request named a dataset that belongs to another user
ForeignId == last.id \in DOMAIN store /\ store[last.id].userId # last.user

\* C2: every handler that loads a Dataset by id filters by the owner:
\* exportDataset and getAISummary called with the id of a dataset of another
\* user answer exactly as for an id that no document has.
C2_ExportAndSummaryFilterByOwner ==
  (last.op \in {"exportDataset", "getAISummary"} /\ ForeignId)
     => last.resp = NotFoundResp(last.op, last.user, last.id)

\* C3: not-found indistinguishability.  What getDatasetById, deleteDatasetById
\* and syncGoogleSheet answer to u is the same in the collection as it is
\* and in the collection without the datasets of the other users; a request
\* that named a dataset of another user was answered as for a nonexistent id.
C3_NotFoundIndistinguishable ==
  /\ \A u \in Users, id \in ReqIds :
       /\ getDatasetByIdResp(store, u, id) = getDatasetByIdResp(OwnView(store, u), u, id)
       /\ deleteDatasetByIdResp(store, u, id) = deleteDatasetByIdResp(OwnView(store, u), u, id)
       /\ syncGoogleSheetReject(store, u, id) = syncGoogleSheetReject(OwnView(store, u), u, id)
  /\ (last.op \in {"getDatasetById", "deleteDatasetById", "syncGoogleSheet"} /\ ForeignId)
       => last.resp = NotFoundResp(last.op, last.user, last.id)

\* getDatasetById by A for a dataset of B was answered 404
C3_Witness ==
  /\ last.op = "getDatasetById"
  /\ last.user = "A"
  /\ ForeignId
  /\ store[last.id].source = "sheet"
  /\ last.resp.status = 404

\* C4: in every reachable state every stored dataset has
\* rowCount = length(rows).
C4_RowCountIsRowsLength ==
  \A i \in DOMAIN store : store[i].rowCount = Len(store[i].rows)

\* a dataset was synced and its rows changed in number
C4_Witness ==
  \E i \in DOMAIN store :
    /\ okSyncs[i] >= 1
    /\ store[i].rowCount = 2
    /\ Len(store[i].rows) = 2

\* C5: atomic replace.  In every reachable state the stored headers, rows and
\* rowCount of a sheet dataset are together the complete result of parsing
\* one fetched table, and a read returns such a complete result too.
C5_AtomicReplace ==
  /\ \A i \in DOMAIN store :
       store[i].source = "sheet" =>
         \E t \in Tables :
           /\ store[i].rows = t
           /\ store[i].headers = HeadersOf(t)
           /\ store[i].rowCount = Len(t)
  /\ (last.op = "getDatasetById" /\ last.resp.status = 200
        /\ last.resp.body.source = "sheet")
       => last.resp.body.headers = HeadersOf(last.resp.body.rows)

\* two syncs of one dataset overlapped and the later write lost the race
C5_Witness ==
  /\ last.op \in {"syncGoogleSheet", "googleSheetData"}
  /\ last.resp.status = 500
  /\ last.resp.body.error = "VersionError"

\* the request in slot r takes the step
Acts(r) == req'[r] # req[r]

\* C6: a sync (syncGoogleSheet, or googleSheetData on an imported URL) whose
\* fetch or parse fails answers with an error and leaves the collection as it
\* was: a request that waits for the remote sheet writes nothing, and a
\* request writes only when it holds a fetched and parsed table.
C6_FailedFetchWritesNothing ==
  [][\A r \in Reqs :
       /\ (Acts(r) /\ req[r].pc = "fetch") =>
            /\ store' = store
            /\ okSyncs' = okSyncs
            /\ req'[r].pc = "idle" =>
                 (last'.resp.status = 500 /\ last'.resp.body.error = "fetch")
            /\ req'[r].pc # "idle" => (req'[r].pc = "save" /\ req'[r].table \in Tables)
       /\ (Acts(r) /\ req[r].op \in {"googleSheetData", "syncGoogleSheet"} /\ store' # store)
            => req[r].pc = "save"]_vars

\* a sync of an existing dataset failed at the fetch and the dataset is as created
C6_Witness ==
  /\ last.op = "syncGoogleSheet"
  /\ last.resp.status = 500
  /\ last.resp.body.error = "fetch"
  /\ last.id \in DOMAIN store
  /\ store[last.id].syncCount = 1
  /\ store[last.id].lastSyncedAt = store[last.id].uploadedAt
  /\ Len(store[last.id].rows) >= 1

\* C7: the step that completes a successful syncGoogleSheet stores a syncCount
\* one more than the dataset had when the call loaded it, and a lastSyncedAt
\* strictly greater than the one it had then.
C7_SyncCountsAndStamps ==
  [][\A r \in Reqs :
       (Acts(r) /\ req[r].op = "syncGoogleSheet" /\ req[r].pc = "save"
          /\ last'.resp.status = 200) =>
         LET before == req[r].doc[1] IN
           /\ before.id \in DOMAIN store'
           /\ store'[before.id].syncCount = before.d.syncCount + 1
           /\ store'[before.id].lastSyncedAt > before.d.lastSyncedAt
           /\ last'.resp.body.syncCount = before.d.syncCount + 1]_vars

\* a sync succeeded on a dataset that had been synced before
C7_Witness ==
  /\ last.op = "syncGoogleSheet"
  /\ last.resp.status = 200
  /\ last.resp.body.syncCount = 2
  /\ last.id \in DOMAIN store
  /\ store[last.id].syncCount = 2
  /\ store[last.id].lastSyncedAt > store[last.id].uploadedAt

\* C8: in every reachable state the syncCount of a sheet dataset is 1 plus
\* the number of sync operations answered with success on it.
C8_SyncCountCountsEverySync ==
  \A i \in DOMAIN store :
    store[i].source = "sheet" => store[i].syncCount = 1 + okSyncs[i]

\* the sheet datasets of u imported from url
SheetsFor(s, u, url) ==
  {i \in DOMAIN s : s[i].userId = u /\ s[i].sheetUrl = url /\ s[i].source = "sheet"}

\* C9: with requests made one after the other, googleSheetData for a URL the
\* user has not imported creates the one dataset of that (userId, sheetUrl)
\* and answers isUpdate false; called again with the same URL it updates that
\* same record, answers its datasetId with isUpdate true and creates nothing.
C9_SecondImportUpdates ==
  [][\A r \in Reqs :
       (Acts(r) /\ req[r].op = "googleSheetData" /\ req[r].pc = "save") =>
         LET had == SheetsFor(store, req[r].user, req[r].url)
             has == SheetsFor(store', req[r].user, req[r].url)
         IN IF had = {}
            THEN /\ last'.resp.status = 201
                 /\ last'.resp.body.isUpdate = FALSE
                 /\ has = {last'.resp.body.datasetId}
            ELSE /\ last'.resp.status = 200
                 /\ last'.resp.body.isUpdate = TRUE
                 /\ had = {last'.resp.body.datasetId}
                 /\ has = had
                 /\ DOMAIN store' = DOMAIN store]_vars

\* the second import of the same URL by the same user updated the one record
C9_Witness ==
  /\ last.op = "googleSheetData"
  /\ last.resp.status = 200
  /\ last.resp.body.isUpdate = TRUE
  /\ last.resp.body.syncCount = 2
  /\ SheetsFor(store, last.user, last.url) = {last.resp.body.datasetId}

\* C10: no ingestion persists empty data: every dataset in every reachable
\* state has at least one header and at least one row.
C10_NoEmptyDataset ==
  \A i \in DOMAIN store : Len(store[i].headers) >= 1 /\ Len(store[i].rows) >= 1

Answered(op) ==
  \/ req' = req /\ started' = started + 1 /\ last'.op = op
  \/ \E r \in Reqs : req[r].op = op /\ req[r].pc # "idle" /\ req'[r].pc = "idle"

\* a request of kind op takes a step that does not answer it
Proceeds(op) ==
  \E r \in Reqs : Acts(r) /\ req'[r].op = op /\ req'[r].pc # "idle"

\* C12: a failed ingestion leaves nothing behind.  The step that answers
\* uploadFile or googleSheetData with an error status leaves the collection
\* exactly as it was, and no earlier step of such a request writes to it.
C12_FailedIngestionLeavesNothing ==
  [][\A op \in {"uploadFile", "googleSheetData"} :
       /\ (Answered(op) /\ last'.resp.status >= 400) =>
            (store' = store /\ nextId' = nextId)
       /\ Proceeds(op) => (store' = store /\ nextId' = nextId)]_vars

\* an upload failed at the database write while a dataset was stored
C12_Witness ==
  /\ last.op = "uploadFile"
  /\ last.resp.status = 500
  /\ last.resp.message = "dbError"
  /\ DOMAIN store = {1}
  /\ nextId = 2

\* C13: syncGoogleSheet called by the owner on a dataset that is not
\* remote-sourced is answered with the InvalidOperation kind (status 400,
\* not the 404 of NotFound).
C13_SyncOfUploadIsInvalidOperation ==
  (/\ last.op = "syncGoogleSheet"
   /\ last.id \in DOMAIN store
   /\ store[last.id].userId = last.user
   /\ store[last.id].source # "sheet")
    => (last.resp.status = 400 /\ last.resp # NotFoundResp(last.op, last.user, last.id))

\* the step completes an update of a stored sheet by the request in slot r
\* (googleSheetData's update branch or syncGoogleSheet) with success
UpdateAnswered(r, op) ==
  /\ Acts(r)
  /\ req[r].op = op
  /\ req[r].pc = "save"
  /\ req[r].doc # << >>
  /\ last'.resp.status = 200

\* C14: change classification on update.  With p the rowCount the dataset
\* had when the call loaded it and n the number of fetched rows, both
\* googleSheetData's update answer and syncGoogleSheet's answer report
\* previousRowCount = p, currentRowCount = n, changeType 'added' iff n > p,
\* 'removed' iff n < p, 'no change' iff n = p; googleSheetData reports
\* rowsChanged = |n - p|.
C14_ChangeClassification ==
  [][\A r \in Reqs : \A op \in {"googleSheetData", "syncGoogleSheet"} :
       UpdateAnswered(r, op) =>
         LET p == req[r].doc[1].d.rowCount
             n == Len(req[r].table)
             b == last'.resp.body
         IN /\ b.previousRowCount = p
            /\ b.currentRowCount = n
            /\ (b.changeType = "added") <=> (n > p)
            /\ (b.changeType = "removed") <=> (n < p)
            /\ (b.changeType = "no change") <=> (n = p)
            /\ op = "googleSheetData" =>
                 b.rowsChanged = (IF n >= p THEN n - p ELSE p - n)]_vars

\* a second import fetched fewer rows than the dataset had
C14_Witness ==
  /\ last.op = "googleSheetData"
  /\ last.resp.status = 200
  /\ last.resp.body.previousRowCount = 2
  /\ last.resp.body.currentRowCount = 1
  /\ last.resp.body.changeType = "removed"
  /\ last.resp.body.rowsChanged = 1

C16_FixedFieldsAndWholesaleReplace ==
  [][/\ \A i \in DOMAIN store \cap DOMAIN store' :
          /\ store'[i].userId = store[i].userId
          /\ store'[i].source = store[i].source
          /\ store'[i].sheetUrl = store[i].sheetUrl
          /\ store'[i].uploadedAt = store[i].uploadedAt
     /\ \A r \in Reqs : \A op \in {"googleSheetData", "syncGoogleSheet"} :
          UpdateAnswered(r, op) =>
            LET id == req[r].doc[1].id
                fetched == req[r].table
            IN /\ store'[id].rows = fetched
               /\ store'[id].headers = HeadersOf(fetched)
               /\ store'[id].rowCount = Len(fetched)
               /\ store'[id].lastSyncedAt = last'.resp.body.lastSyncedAt
               /\ store'[id].syncCount = last'.resp.body.syncCount]_vars

C18_SheetUrlIffSheet ==
  \A i \in DOMAIN store : (store[i].sheetUrl # NoUrl) <=> (store[i].source = "sheet")

\* an imported sheet and an upload are stored side by side
C18_Witness ==
  \E i, j \in DOMAIN store :
    /\ store[i].source = "sheet" /\ store[i].sheetUrl = GoodUrl
    /\ store[j].source # "sheet" /\ store[j].sheetUrl = NoUrl

\* C19: creation defaults.  Every dataset a step creates has uploadedAt =
\* lastSyncedAt and rowCount = length(rows); one created by googleSheetData
\* has syncCount 1 and one created by uploadFile has no syncCount.
C19_CreationDefaults ==
  [][\A i \in DOMAIN store' \ DOMAIN store :
       /\ store'[i].uploadedAt = store'[i].lastSyncedAt
       /\ store'[i].rowCount = Len(store'[i].rows)
       /\ store'[i].source = "sheet" => store'[i].syncCount = 1
       /\ store'[i].source # "sheet" => "syncCount" \notin DOMAIN store'[i]]_vars

\* C20: in every reachable state every row of every stored dataset has an
\* entry for every name in the dataset's headers.
C20_RowsHaveEveryHeader ==
  \A i \in DOMAIN store :
    \A k \in 1..Len(store[i].rows) :
      \A h \in 1..Len(store[i].headers) :
        \E c \in 1..Len(store[i].rows[k]) : store[i].rows[k][c][1] = store[i].headers[h]

\* C21: ingest/read round trip.  After a successful uploadFile that reports
\* (datasetId, headers H, rowCount N), getDatasetById by the same owner for
\* that id returns headers H in the same order, the N parsed rows in source
\* order with their cells as parsed, and a rowCount of N; and no later step
\* changes what that read returns while the dataset is stored.
C21_IngestReadRoundTrip ==
  [][/\ \A r \in Reqs :
          (Acts(r) /\ req[r].op = "uploadFile" /\ req[r].pc = "create"
             /\ last'.resp.status = 201) =>
            LET b == last'.resp.body
                g == getDatasetByIdResp(store', req[r].user, b.datasetId)
            IN /\ g.status = 200
               /\ g.body.headers = b.headers
               /\ Len(g.body.rows) = b.rowCount
               /\ g.body.rows = req[r].doc[1].rows
               /\ "rowCount" \in DOMAIN g.body
               /\ g.body.rowCount = b.rowCount
     /\ \A i \in DOMAIN store \cap DOMAIN store' :
          store[i].source # "sheet" =>
            getDatasetByIdResp(store', store[i].userId, i)
              = getDatasetByIdResp(store, store[i].userId, i)]_vars

\* C22: getMyDatasets answers with exactly the datasets whose userId is the
\* caller, each once, ordered by uploadedAt descending, and the count it
\* reports is the number of datasets returned.
C22_ListIsOwnAndNewestFirst ==
  [][Answered("getMyDatasets") =>
       LET b == last'.resp.body
           n == Len(b.datasets)
       IN /\ last'.resp.status = 200
          /\ b.count = n
          /\ {b.datasets[k].id : k \in 1..n} = OwnedBy(store, last'.user)
          /\ n = Cardinality(OwnedBy(store, last'.user))
          /\ \A k, l \in 1..n :
               k < l => b.datasets[k].uploadedAt >= b.datasets[l].uploadedAt
          /\ \A k \in 1..n :
               /\ b.datasets[k].uploadedAt = store[b.datasets[k].id].uploadedAt
               /\ b.datasets[k].headers = store[b.datasets[k].id].headers
               /\ b.datasets[k].row = store[b.datasets[k].id].rows]_vars

\* a user with two datasets created at different times listed them, the
\* newer first
C22_Witness ==
  /\ last.op = "getMyDatasets"
  /\ last.resp.status = 200
  /\ last.resp.body.count = 2
  /\ last.resp.body.datasets[1].uploadedAt > last.resp.body.datasets[2].uploadedAt

\* a URL that has a /d/<id> part
HasSheetId(url) == \E i \in 1..Len(url) : url[i] = "d" /\ i < Len(url) /\ url[i + 1] # ""

SyncOps == {"googleSheetData", "syncGoogleSheet"}

\* C23: googleSheetData called with a URL that has no /d/<id> part is answered
\* 400 "Invalid Google Sheet URL" in the step that receives it: no GET is
\* issued for it (it never waits for the remote sheet) and no dataset is
\* created or modified.
C23_InvalidUrlIsRejectedBeforeFetch ==
  [][/\ (Answered("googleSheetData") /\ last'.url # NoUrl /\ ~HasSheetId(last'.url)) =>
          /\ last'.resp.status = 400
          /\ last'.resp.message = "Invalid Google Sheet URL"
          /\ req' = req
          /\ store' = store
          /\ nextId' = nextId
     /\ \A r \in Reqs :
          (req'[r].op = "googleSheetData" /\ req'[r].pc # "idle") =>
            HasSheetId(req'[r].url)]_vars

\* an import with a URL without /d/<id> was answered while a dataset is stored
C23_Witness ==
  /\ last.op = "googleSheetData"
  /\ last.url = <<"x", "s1">>
  /\ last.resp.status = 400
  /\ DOMAIN store # {}

\* C24: a googleSheetData or syncGoogleSheet request that waits for the remote
\* sheet is cut off by a timeout when the remote never answers, and a request
\* that ends at the fetch is answered with a failure and leaves the
\* collection as it was.
C24_RemoteStepIsBounded ==
  [][\A r \in Reqs :
       /\ req'[r].pc = "fetch" => "timeout" \in AxiosOutcomes(AxiosTimeout)
       /\ (Acts(r) /\ req[r].pc = "fetch" /\ req'[r].pc = "idle") =>
            (store' = store /\ last'.resp.status = 500)]_vars

\* C25: whatever the interleaving of googleSheetData calls, the collection
\* holds at most one sheet dataset for a (userId, sheetUrl) pair.
C25_OneSheetPerUserAndUrl ==
  \A u \in Users, url \in Urls \ {NoUrl} : Cardinality(SheetsFor(store, u, url)) <= 1

\* C27: a googleSheetData or syncGoogleSheet call issues at most one GET, none
\* when it is rejected before the fetch, and writes to the collection only
\* after its GET was answered and the body parsed, and then reports the
\* table of that answer.
C27_FetchDiscipline ==
  [][/\ \A r \in Reqs :
          /\ req'[r].gets <= 1
          /\ (req'[r].op \in SyncOps /\ req'[r].pc \in {"fetch", "save"}) => req'[r].gets = 1
          /\ (Acts(r) /\ req[r].op \in SyncOps /\ store' # store) =>
               /\ req[r].pc = "save"
               /\ req[r].gets = 1
               /\ req[r].table \in Tables
               /\ last'.resp.body.rowCount = Len(req[r].table)
               /\ last'.resp.body.headers = HeadersOf(req[r].table)
     /\ \A op \in SyncOps :
          (Answered(op) /\ req' = req) =>
            /\ store' = store
            /\ last'.resp.status \in {400, 404, 500}]_vars

\* a sync that issued its one GET stored the two rows the GET returned, and a
\* later request for a dataset that is not there was rejected before any GET
C27_Witness ==
  /\ last.op = "syncGoogleSheet"
  /\ last.resp.status = 404
  /\ \E i \in DOMAIN store : store[i].syncCount = 2 /\ Len(store[i].rows) = 2

C28_SummaryCacheIsNotADependency ==
  [][(Answered("getAISummary") /\ last'.resp.status = 200 /\ last'.resp.body.cached) =>
       /\ last'.id \in DOMAIN store
       /\ store[last'.id].userId = last'.user
       /\ last'.resp.body.summary = SummaryOf(store[last'.id])]_vars

\* what every step does with the two caches
CacheDiscipline ==
  /\ (Answered("getAISummary") /\ req' = req) =>
       LET k == SummaryKey(last'.id, last'.user) IN
         /\ k \in DOMAIN summaryCache
         /\ now - summaryCache[k].timestamp < CACHE_TTL
         /\ last'.resp.body.cached
         /\ last'.resp.body.summary = summaryCache[k].data
         /\ summaryCache' = summaryCache
  /\ \A r \in Reqs :
       /\ (Acts(r) /\ req[r].pc = "idle" /\ req'[r].op = "getAISummary") =>
            LET k == SummaryKey(req'[r].id, req'[r].user) IN
              /\ req'[r].pc = "load"
              /\ k \in DOMAIN summaryCache => now - summaryCache[k].timestamp >= CACHE_TTL
              /\ summaryCache' = Remove(summaryCache, k)
       /\ (Acts(r) /\ req[r].op = "getAISummary" /\ req[r].pc # "idle") =>
            IF req'[r].pc = "idle" /\ last'.resp.status = 200
            THEN summaryCache' =
                   Insert(summaryCache, SummaryKey(req[r].id, req[r].user),
                          [data |-> last'.resp.body.summary, timestamp |-> now])
            ELSE summaryCache' = summaryCache
       /\ (Acts(r) /\ req[r].pc = "idle" /\ req'[r].op = "askAssistant") =>
            LET l == req'[r].doc[1]
                k == ContextKey(l.userId)
            IN /\ (req'[r].pc = "generate" /\ l.context # << >>) =>
                    /\ k \in DOMAIN userContextCache
                    /\ now - userContextCache[k].timestamp < CONTEXT_CACHE_TTL
                    /\ l.context = <<userContextCache[k].data>>
                    /\ userContextCache' = userContextCache
               /\ req'[r].pc = "context" =>
                    /\ k \in DOMAIN userContextCache =>
                         now - userContextCache[k].timestamp >= CONTEXT_CACHE_TTL
                    /\ userContextCache' = Remove(userContextCache, k)
       /\ (Acts(r) /\ req[r].op = "askAssistant" /\ req[r].pc \in {"context", "generate"}) =>
            IF req[r].pc = "context" /\ req'[r].pc = "generate"
            THEN userContextCache' =
                   Insert(userContextCache, ContextKey(req[r].doc[1].userId),
                          [data |-> req'[r].doc[1].context[1], timestamp |-> now])
            ELSE userContextCache' = userContextCache
  /\ \A k \in DOMAIN userContextCache' : userContextCache'[k].data.profile = k[2]

\* C29 (as the code has it): a summary or a user context is served from its
\* cache only at an age strictly below the TTL (10 and 5 minutes) and only
\* from the entry of the requesting user id; an expired entry is removed on
\* access and the value recomputed; a getAISummary request that ends in a
\* timeout or an error stores no entry, and neither does the step in which a
\* context load fails or times out for its caller.  (A context load that
\* outlives the 5 s timer of its caller may still store its entry.)
C29_CacheTtlAndKeyIsolation == [][CacheDiscipline]_vars

\* a summary was served from the cache one millisecond before its TTL
C29_Witness ==
  /\ last.op = "getAISummary"
  /\ last.resp.status = 200
  /\ last.resp.body.cached
  /\ SummaryKey(last.id, last.user) \in DOMAIN summaryCache
  /\ now - summaryCache[SummaryKey(last.id, last.user)].timestamp = CACHE_TTL - 1

\* C29 (as stated): the same, and no request that ended in a timeout stores a
\* cache entry, the askAssistant request that gave up on its context included.
C29_NoEntryFromTimedOutRequest ==
  [][/\ CacheDiscipline
     /\ \A r \in Reqs :
          (Acts(r) /\ req[r].pc = "detached") => userContextCache' = userContextCache]_vars

\* C30: an askAssistant answer carries the profile and dataset summary of a
\* user only when the request is authenticated as that user.
C30_ContextOnlyForAuthenticatedUser ==
  [][\A r \in Reqs :
       (Acts(r) /\ req[r].op = "askAssistant" /\ req[r].pc = "generate"
          /\ last'.resp.status = 200 /\ last'.resp.body.answer # << >>) =>
         last'.resp.body.answer[1].profile = req[r].user]_vars

====
